---- MODULE Spec2Model ----
(***************************************************************************)
(* Scroll engine of js/post.js: the Scroller (scroll listener + 150 ms     *)
(* timers + observer list), the topic bar (showTopic) and the table of     *)
(* contents tracker (catalogueHighlight).                                  *)
(*                                                                         *)
(* JavaScript runs every listener and every timer callback to completion,  *)
(* so each of them is one action.                                          *)
(***************************************************************************)
EXTENDS Integers, Sequences, FiniteSets, TLC

----------------------------------------------------------------------------
(* Bounds of the model *)

\* Granularity of time: the clock advances in steps of Tick time units.
Tick == 75
\* Number of timers that may be outstanding at once.
MaxPending == 2
\* Number of links in the table of contents.
MaxLinks == 3
\* the largest offset smoothScrollToTop is started at
MaxOffset == 200
\* how many times the modal viewer is opened
MaxOpens == 3

(* Program constants *)

\* setTimeout(..., 150)
QuietInterval == 150
\* var spacing = 60
spacing == 60
\* top: direc.offsetTop + 100 - tocContainerHeight
PanelInset == 100

(* Environment: the values the page can show *)

\* window.pageYOffset
ScrollOffsets == {100, 850, 1600}
\* window.innerHeight
ViewportHeights == {400, 425}
\* postTitle.offsetTop is 60; getBoundingClientRect().height is one of these
TitleTops == {60}
TitleHeights == {39, 40}
\* height of the .toc panel
PanelHeights == {200}
\* height of the content of the .toc panel
PanelScrollHeights == {320, 480}

\* const ZOOM = { min: 0.5, max: 4, step: 0.2 }, in hundredths
ZoomMin == 50
ZoomMax == 400
ZoomStep == 20
\* the lower bound fitTo computes (0.1, in hundredths) and the inset it leaves
FitFloor == 10
FitInset == 24
\* clientWidth and clientHeight of the modal body; width and height of the svg
\* at scale 1
ClientSizes == {34, 74, 224, 1024}
SvgSizes == {0, 100, 1000}

\* null: what getElementById and querySelector give when nothing matches, and
\* the initial value of activeTopicEl. Elements are named by positive numbers.
Null == 0

----------------------------------------------------------------------------
VARIABLES
    pageYOffset,     \* window.pageYOffset
    innerHeight,     \* window.innerHeight
    postTitle,       \* layout of #postTitle: [offsetTop, height]
    callbacks,       \* Scroller.callbacks, in registration order
    timers,          \* outstanding setTimeout closures, oldest first
    quietWindow,     \* history: the quiet window opened by the first raw event
    calls,           \* history: the observer invocations of the latest timer callback
    classList,       \* class names on #postTopic
    directory,       \* the '.toc a' links captured by catalogueHighlight()
    headings,        \* offsetTop of the heading elements, by id (no entry: no element)
    tocActive,       \* indices of the links of .toc carrying is-active
    tocScrollTop,    \* scroll position of the .toc panel
    tocContainer,    \* layout of the .toc panel: [height, scrollHeight]
    topFrame,        \* smoothScrollToTop: "idle", "requested" (an animation frame
                     \* is pending) or "done"
    dataScale,       \* the data-scale attribute of a diagram, in hundredths
                     \* (Null: no attribute)
    overlayActive,   \* is-active on .mermaid-modal-overlay
    keyHandlers,     \* the zoom keydown listeners of openModal on document
    mermaidKeyHandler, \* overlay._mermaidKeyHandler (Null: none)
    opened           \* history: how many times openModal ran

vars == <<pageYOffset, innerHeight, postTitle, callbacks, timers, quietWindow,
          calls, classList, directory, headings, tocActive, tocScrollTop,
          tocContainer, topFrame, dataScale, overlayActive, keyHandlers,
          mermaidKeyHandler, opened>>

page == <<directory, headings, tocContainer, callbacks>>
toc == <<tocActive, tocScrollTop>>
modal == <<overlayActive, keyHandlers, mermaidKeyHandler, opened>>
widgets == <<topFrame, dataScale, modal>>

----------------------------------------------------------------------------
(* The topic bar: showTopic *)

Hidden == "is-hidden-topic-bar"
ImmediatelyShow == "immediately-show"
SwitchPostTitle == "is-switch-post-title"
ShowPostTitle == "is-show-post-title"
ShowTips == "is-show-scrollToTop-tips"
FlashTips == "is-flash-scrollToTop-tips"

ShownMarkers == {ImmediatelyShow, SwitchPostTitle, ShowPostTitle, ShowTips, FlashTips}
StateMarkers == ShownMarkers \cup {Hidden}

\* classList.remove / classList.add
Remove(cl, m) == cl \ {m}
Add(cl, m) == cl \cup {m}

\* (a threshold measured once, on the title at offsetTop 60 and height 40)
ThresholdStale(title) == 60 + 40
\* var threshold = postTitle.offsetTop + postTitleCoordinate.height
Threshold(title) == title.offsetTop + title.height

\* if (window.pageYOffset > threshold)
AboveThresholdGE(y, thr) == y >= thr
AboveThreshold(y, thr) == y > thr

\* if (window.pageYOffset > window.innerHeight * 2)
PastTwoViewportsGE(y, ih) == y >= ih * 2
PastTwoViewports(y, ih) == y > ih * 2

\* lines 46-56: beforeOffsetY - window.pageYOffset === 0
ZeroDeltaKeepTitle(cl) ==
    IF ShowTips \in cl
    THEN Add(Remove(cl, ShowTips), FlashTips)
    ELSE Add(cl, ImmediatelyShow)
ZeroDeltaNoFlash(cl) ==
    Add(Remove(Remove(Remove(cl, SwitchPostTitle), ShowPostTitle), ImmediatelyShow),
        ImmediatelyShow)
ZeroDelta(cl) ==
    LET c == Remove(Remove(Remove(cl, SwitchPostTitle), ShowPostTitle), ImmediatelyShow)
    IN  IF ShowTips \in c
        THEN Add(Remove(c, ShowTips), FlashTips)
        ELSE Add(c, ImmediatelyShow)

\* lines 62-67: scrolled up, far down the page
ScrollUpTips(cl) ==
    Add(Remove(Remove(Remove(Remove(cl, ImmediatelyShow), ShowPostTitle),
                      SwitchPostTitle), FlashTips),
        ShowTips)

\* lines 71-76: scrolled up, near the top
ScrollUpTitle(cl) ==
    Add(Remove(Remove(Remove(Remove(cl, ImmediatelyShow), ShowPostTitle),
                      ShowTips), FlashTips),
        SwitchPostTitle)

\* lines 81-85: scrolled down
ScrollDownKeepSwitch(cl) ==
    Add(Remove(Remove(Remove(cl, ImmediatelyShow), ShowTips), FlashTips),
        ShowPostTitle)
ScrollDown(cl) ==
    Add(Remove(Remove(Remove(Remove(cl, ImmediatelyShow), SwitchPostTitle),
                      ShowTips), FlashTips),
        ShowPostTitle)

HideAllKeepFlash(cl) ==
    Add(Remove(Remove(Remove(Remove(cl, ShowTips), SwitchPostTitle),
                      ShowPostTitle), ImmediatelyShow),
        Hidden)
\* lines 90-96: hidden all
HideAll(cl) ==
    Add(Remove(Remove(Remove(Remove(Remove(cl, FlashTips), ShowTips),
                             SwitchPostTitle), ShowPostTitle), ImmediatelyShow),
        Hidden)

\* showTopic(evt), reading window.pageYOffset = y, window.innerHeight = ih and the
\* layout of #postTitle; the result is the class list of #postTopic.
showTopic(cl, evt, y, ih, title) ==
    LET threshold == Threshold(title)
        beforeOffsetY == evt.beforeOffsetY
        isScrollToTop == beforeOffsetY - y > 0
        shown == Remove(cl, Hidden)
    IN  IF AboveThreshold(y, threshold)
        THEN IF beforeOffsetY - y = 0
             THEN ZeroDelta(shown)
             ELSE IF isScrollToTop
                  THEN IF PastTwoViewports(y, ih)
                       THEN ScrollUpTips(shown)
                       ELSE ScrollUpTitle(shown)
                  ELSE IF beforeOffsetY - y # 0
                       THEN ScrollDown(shown)
                       ELSE shown
        ELSE HideAll(cl)

----------------------------------------------------------------------------
(* The table of contents tracker: catalogueHighlight *)

\* A heading id is a name 1..MaxLinks; the even names hold a non-ASCII character,
\* which a URI writes either raw or percent-escaped.
NonAscii(name) == name % 2 = 0

\* A link of the table of contents: its href attribute is absent (name = 0) or
\* "#" followed by the id, written raw or percent-escaped.
Links == { l \in [name : 0..MaxLinks, escaped : BOOLEAN] :
             l.escaped => (l.name # 0 /\ NonAscii(l.name)) }

\* link.href: the serialised URL, in which non-ASCII characters are escaped
UrlSerialize(link) == [link EXCEPT !.escaped = NonAscii(link.name)]
\* decodeURI(link.href).split('#')[1]: the escapes are undone, the id remains
DecodeURI(url) == url.name
\* encodeURI(id): the written form with the non-ASCII characters escaped
EncodeURI(name) == [name |-> name, escaped |-> NonAscii(name)]

\* offsetTop of the i-th link inside the panel
LinkTop(i) == (i - 1) * 140

\* document.getElementById(id)
GetElementById(hd, id) == IF id \in DOMAIN hd THEN id ELSE Null

\* lines 110-114: the heading element of every link that has an href (null
\* when the document has no element with that id)
RECURSIVE contentTocList(_, _)
contentTocList(dir, hd) ==
    IF dir = <<>> THEN <<>>
    ELSE LET link == Head(dir)
             id == DecodeURI(UrlSerialize(link))
         IN  IF link.name = 0
             THEN contentTocList(Tail(dir), hd)
             ELSE <<GetElementById(hd, id)>>
                  \o contentTocList(Tail(dir), hd)

\* document.querySelector('.toc a[href="#..."]'): the first link whose attribute
\* is written exactly so, 0 for null
QuerySelectorHref(dir, attr) ==
    LET hits == { i \in 1..Len(dir) : dir[i] = attr }
    IN  IF hits = {} THEN 0 ELSE CHOOSE i \in hits : \A j \in hits : i <= j

\* document.querySelector('.toc .is-active'): the first marked link, 0 for null
QuerySelectorActiveNone(active) == 0
QuerySelectorActive(active) ==
    IF active = {} THEN 0 ELSE CHOOSE i \in active : \A j \in active : i <= j

\* if (currentTopic.offsetTop > scrollTop + spacing / 2) continue
BeyondLookAheadInverted(top, scrollTop) == top < scrollTop + spacing \div 2
BeyondLookAheadNever(top, scrollTop) == FALSE
BeyondLookAhead(top, scrollTop) == top > scrollTop + spacing \div 2

\* else if (currentTopic.offsetTop + spacing >= activeTopicEl.offsetTop - spacing)
WithinBandStrict(top, activeTop) == top >= activeTop
WithinBandNear(top, activeTop) ==
    top + spacing >= activeTop - spacing /\ top - spacing <= activeTop + spacing
WithinBand(top, activeTop) == top + spacing >= activeTop - spacing

\* tocContainer.scrollTo({top: ...}): the browser keeps the position inside the
\* scrollable range
ScrollTo(box, top) ==
    LET most == IF box.scrollHeight > box.height
                THEN box.scrollHeight - box.height ELSE 0
    IN  IF top < 0 THEN 0 ELSE IF top > most THEN most ELSE top

\* lines 139-148
PanelTargetStrict(box, linkTop) ==
    IF linkTop > box.height - spacing
    THEN ScrollTo(box, linkTop + PanelInset - box.height)
    ELSE ScrollTo(box, 0)
PanelTarget(box, linkTop) ==
    IF linkTop >= box.height - spacing
    THEN ScrollTo(box, linkTop + PanelInset - box.height)
    ELSE ScrollTo(box, 0)

\* lines 118-149: the loop from index i on. st holds activeTopicEl, the marked
\* links, the panel position and whether a TypeError ended the pass.
RECURSIVE Scan(_, _, _, _, _, _, _)
Scan(list, i, st, dir, hd, box, scrollTop) ==
    IF i > Len(list) THEN st
    ELSE
    LET currentTopic == list[i] IN
    IF currentTopic = Null
    THEN [st EXCEPT !.threw = TRUE]          \* null.offsetTop
    ELSE IF BeyondLookAhead(hd[currentTopic], scrollTop)
    THEN Scan(list, i + 1, st, dir, hd, box, scrollTop)
    ELSE
    LET activeTopicEl ==
            IF st.activeTopicEl = Null THEN currentTopic
            ELSE IF WithinBand(hd[currentTopic], hd[st.activeTopicEl])
                 THEN currentTopic
                 ELSE st.activeTopicEl
        beforeActiveEl == QuerySelectorActive(st.tocActive)
        cleared == st.tocActive \ {beforeActiveEl}
        direc == QuerySelectorHref(dir, EncodeURI(activeTopicEl))
    IN  IF direc = 0
        THEN [st EXCEPT !.activeTopicEl = activeTopicEl,
                        !.tocActive = cleared,
                        !.threw = TRUE]      \* null.classList
        ELSE Scan(list, i + 1,
                  [activeTopicEl |-> activeTopicEl,
                   tocActive |-> cleared \cup {direc},
                   tocScrollTop |-> PanelTarget(box, LinkTop(direc)),
                   threw |-> FALSE],
                  dir, hd, box, scrollTop)

\* The function catalogueHighlight() returns (lines 106-150), reading
\* window.pageYOffset = y.
catalogueHighlightPassCarry(active, panelTop, dir, hd, box, y) ==
    Scan(contentTocList(dir, hd), 1,
         [activeTopicEl |-> IF active = {} THEN Null
                            ELSE GetElementById(hd, dir[QuerySelectorActive(active)].name),
          tocActive |-> active, tocScrollTop |-> panelTop, threw |-> FALSE],
         dir, hd, box, y)
catalogueHighlightPass(active, panelTop, dir, hd, box, y) ==
    Scan(contentTocList(dir, hd), 1,
         [activeTopicEl |-> Null, tocActive |-> active,
          tocScrollTop |-> panelTop, threw |-> FALSE],
         dir, hd, box, y)

\* catalogueHighlight(): false when the page has no '.toc a' (lines 100-103)
HasCatalogueAlways(dir) == TRUE
HasCatalogue(dir) == Len(dir) # 0

----------------------------------------------------------------------------
(* The Scroller and the page *)

CatalogueHighlight == "catalogueHighlight"
ShowTopic == "showTopic"

\* mounted(), lines 241-247: the tracker is registered first, and only when
\* catalogueHighlight() returned a function
Mounted(dir) ==
    IF HasCatalogue(dir) THEN <<CatalogueHighlight, ShowTopic>> ELSE <<ShowTopic>>

Closed == [open |-> FALSE, age |-> 0, offset |-> 0]

\* _that.callbacks.forEach(function (func) { func(params) }), from the i-th
\* callback on: a TypeError thrown by a callback ends the forEach. dom is the
\* part of the document the callbacks write, log the invocations made.
RECURSIVE ForEach(_, _, _, _, _)
ForEach(cbs, i, params, dom, log) ==
    IF i > Len(cbs) THEN [dom |-> dom, log |-> log]
    ELSE IF cbs[i] = CatalogueHighlight
    THEN LET r == catalogueHighlightPass(dom.tocActive, dom.tocScrollTop,
                                         directory, headings, tocContainer,
                                         pageYOffset)
             d == [dom EXCEPT !.tocActive = r.tocActive,
                              !.tocScrollTop = r.tocScrollTop]
             l == Append(log, [func |-> cbs[i], params |-> params, threw |-> r.threw])
         IN  IF r.threw
             THEN [dom |-> d, log |-> l]
             ELSE ForEach(cbs, i + 1, params, d, l)
    ELSE LET d == [dom EXCEPT !.classList =
                       showTopic(dom.classList, params, pageYOffset, innerHeight,
                                 postTitle)]
             l == Append(log, [func |-> cbs[i], params |-> params, threw |-> FALSE])
         IN  ForEach(cbs, i + 1, params, d, l)

\* A raw scroll event arrives with the page at offset y: the listener of lines
\* 10-26 runs. Its wait is a fresh local of every call.
RawScroll(y) ==
    /\ Len(timers) < MaxPending
    /\ pageYOffset' = y
    /\ quietWindow' = IF quietWindow.open THEN quietWindow
                      ELSE [open |-> TRUE, age |-> 0, offset |-> y]
    /\ LET event == [first |-> ~quietWindow.open,
                     windowOffset |-> quietWindow'.offset]
           wait == FALSE
           beforeOffsetY == y
       IN  IF wait
           THEN timers' = timers
           ELSE timers' = Append(timers, [event |-> event,
                                          beforeOffsetY |-> beforeOffsetY,
                                          remaining |-> QuietInterval])
    /\ UNCHANGED <<innerHeight, postTitle, calls, classList, toc, page, widgets>>

ElapseNever(t) == t
\* Time passes.
Elapse(t) == [t EXCEPT !.remaining = IF @ > Tick THEN @ - Tick ELSE 0]

Tick1 ==
    /\ quietWindow.open \/ \E i \in 1..Len(timers) : timers[i].remaining > 0
    /\ timers' = [i \in 1..Len(timers) |-> Elapse(timers[i])]
    /\ quietWindow' = IF quietWindow.open /\ quietWindow.age + Tick < QuietInterval
                      THEN [quietWindow EXCEPT !.age = @ + Tick]
                      ELSE Closed
    /\ UNCHANGED <<pageYOffset, innerHeight, postTitle, calls, classList, toc, page, widgets>>

\* The oldest timer is due: the callback of lines 17-25 runs.
Dispatch ==
    /\ timers # <<>>
    /\ Head(timers).remaining = 0
    /\ LET params == [event |-> Head(timers).event,
                      beforeOffsetY |-> Head(timers).beforeOffsetY]
           r == ForEach(callbacks, 1, params,
                        [classList |-> classList, tocActive |-> tocActive,
                         tocScrollTop |-> tocScrollTop],
                        <<>>)
       IN  /\ classList' = r.dom.classList
           /\ tocActive' = r.dom.tocActive
           /\ tocScrollTop' = r.dom.tocScrollTop
           /\ calls' = r.log
    /\ timers' = Tail(timers)
    /\ UNCHANGED <<pageYOffset, innerHeight, postTitle, quietWindow, page, widgets>>

\* The window is resized.
Resize ==
    /\ \E h \in ViewportHeights \ {innerHeight} : innerHeight' = h
    /\ UNCHANGED <<pageYOffset, postTitle, timers, quietWindow, calls, classList,
                   toc, page, widgets>>

\* The title is laid out again (a font or an image loads).
Relayout ==
    /\ \E h \in TitleHeights \ {postTitle.height} :
           postTitle' = [postTitle EXCEPT !.height = h]
    /\ UNCHANGED <<pageYOffset, innerHeight, timers, quietWindow, calls, classList,
                   toc, page, widgets>>

\* The widgets before any use: no animation, a diagram without a data-scale
\* attribute, no modal overlay.
WidgetsInit ==
    /\ topFrame = "idle"
    /\ dataScale = Null
    /\ overlayActive = FALSE
    /\ keyHandlers = {}
    /\ mermaidKeyHandler = Null
    /\ opened = 0

\* The pages of the site: a table of contents generated from the headings, one
\* link per heading in document order, the headings 800 apart; a heading may
\* have been removed from the document since.
Generated(n) == [i \in 1..n |-> EncodeURI(i)]
HeadingTop(i) == (i - 1) * 800
Pages ==
    { [directory |-> Generated(n), headings |-> [i \in (1..n) \ gone |-> HeadingTop(i)]] :
        n \in {0, MaxLinks}, gone \in {{}, {2}} }

Boxes == [height : PanelHeights, scrollHeight : PanelScrollHeights]

Init ==
    /\ pageYOffset \in ScrollOffsets
    /\ innerHeight \in ViewportHeights
    /\ postTitle \in [offsetTop : TitleTops, height : TitleHeights]
    /\ \E pg \in Pages :
          /\ directory = pg.directory
          /\ headings = pg.headings
          /\ callbacks = Mounted(pg.directory)
    /\ tocContainer \in {b \in Boxes : \A c \in Boxes : b.scrollHeight >= c.scrollHeight}
    /\ timers = <<>>
    /\ quietWindow = Closed
    /\ calls = <<>>
    /\ classList = {}
    /\ tocActive = {}
    /\ tocScrollTop = 0
    /\ WidgetsInit

Next ==
    \/ \E y \in ScrollOffsets : RawScroll(y)
    \/ Tick1
    \/ Dispatch
    \/ Resize
    \/ Relayout

Spec == Init /\ [][Next]_vars

----------------------------------------------------------------------------
(* The tracker alone, on every table of contents within the bounds *)

\* offsetTop of a heading; window.pageYOffset when the tracker runs
HeadingOffsets == {0, 700, 800, 1600}
TocScrollOffsets == {100, 770, 850, 1600}

\* The i-th link points at heading i, or has no href; its id is written as
\* encodeURI writes it, or raw.
TocDirectories ==
    UNION { { d \in [1..n -> Links] : \A i \in 1..n : d[i].name \in {0, i} } :
            n \in 0..MaxLinks }
\* Any of the headings may be absent from the document.
TocHeadings(n) == UNION { [S -> HeadingOffsets] : S \in SUBSET (1..n) }

InitToc ==
    /\ directory \in TocDirectories
    /\ headings \in TocHeadings(Len(directory))
    /\ callbacks = Mounted(directory)
    /\ tocContainer \in Boxes
    /\ pageYOffset = 0
    /\ innerHeight \in {h \in ViewportHeights : \A g \in ViewportHeights : h <= g}
    /\ postTitle \in {t \in [offsetTop : TitleTops, height : TitleHeights] :
                          \A u \in TitleHeights : t.height <= u}
    /\ timers = <<>>
    /\ quietWindow = Closed
    /\ calls = <<>>
    /\ classList = {}
    /\ tocActive = {}
    /\ tocScrollTop = 0
    /\ WidgetsInit

\* The page is at offset y when a timer callback invokes the tracker.
TrackerPass(y) ==
    /\ HasCatalogue(directory)
    /\ pageYOffset' = y
    /\ LET params == [event |-> [first |-> TRUE, windowOffset |-> y],
                      beforeOffsetY |-> y]
           r == catalogueHighlightPass(tocActive, tocScrollTop, directory,
                                       headings, tocContainer, y)
       IN  /\ tocActive' = r.tocActive
           /\ tocScrollTop' = r.tocScrollTop
           /\ calls' = <<[func |-> CatalogueHighlight, params |-> params,
                          threw |-> r.threw]>>
    /\ UNCHANGED <<innerHeight, postTitle, timers, quietWindow, classList, page, widgets>>

NextToc == \E y \in TocScrollOffsets : TrackerPass(y)

SpecToc == InitToc /\ [][NextToc]_vars

----------------------------------------------------------------------------
(* The page from its startup: loaded at the top, the title laid out at its
   startup size, every heading of the table of contents in the document *)

\* The layout of the title when mounted runs
StartupTitle ==
    CHOOSE t \in [offsetTop : TitleTops, height : TitleHeights] :
        \A h \in TitleHeights : t.height >= h

InitStartup ==
    /\ pageYOffset = 0
    /\ innerHeight \in {h \in ViewportHeights : \A g \in ViewportHeights : h <= g}
    /\ postTitle = StartupTitle
    /\ \E pg \in {q \in Pages : DOMAIN q.headings = 1..Len(q.directory)} :
          /\ directory = pg.directory
          /\ headings = pg.headings
          /\ callbacks = Mounted(pg.directory)
    /\ tocContainer \in {b \in Boxes : \A c \in Boxes : b.scrollHeight >= c.scrollHeight}
    /\ timers = <<>>
    /\ quietWindow = Closed
    /\ calls = <<>>
    /\ classList = {}
    /\ tocActive = {}
    /\ tocScrollTop = 0
    /\ WidgetsInit

SpecStartup == InitStartup /\ [][Next]_vars

\* The Scroller on a page whose layout stays as it was at startup. Timers fire:
\* time does not stop while a timer is pending, and a timer that is due runs
\* its callback.
NextScroller ==
    \/ \E y \in ScrollOffsets : RawScroll(y)
    \/ Tick1
    \/ Dispatch

\* What Dispatch does to the queue of timers; a step of NextScroller takes a
\* timer off the queue iff it is a Dispatch step.
TimerFires ==
    /\ timers # <<>>
    /\ Head(timers).remaining = 0
    /\ timers' = Tail(timers)

SpecLive ==
    InitStartup /\ [][NextScroller]_vars /\ WF_vars(Tick1) /\ WF_timers(TimerFires)

----------------------------------------------------------------------------
(* The widgets beside the scroll engine, each on a page whose engine is at rest *)

engine == <<innerHeight, postTitle, timers, quietWindow, calls, classList, toc, page>>

EngineAtRest ==
    /\ innerHeight \in {h \in ViewportHeights : \A g \in ViewportHeights : h <= g}
    /\ postTitle = StartupTitle
    /\ directory = <<>>
    /\ headings = <<>>
    /\ callbacks = Mounted(<<>>)
    /\ tocContainer \in {b \in Boxes : \A c \in Boxes : b.scrollHeight >= c.scrollHeight}
    /\ timers = <<>>
    /\ quietWindow = Closed
    /\ calls = <<>>
    /\ classList = {}
    /\ tocActive = {}
    /\ tocScrollTop = 0

\* Math.floor(Y_TopValve * 0.85)
FloorOf85(Y) == (Y * 85) \div 100

\* smoothScrollToTop(), lines 152-160, with the page at offset Y: whether an
\* animation frame is requested, and the offset scrollTo moves the page to
smoothScrollToTopCeil(Y) ==
    IF Y > 1
    THEN [frame |-> TRUE, top |-> (Y * 85 + 99) \div 100]
    ELSE [frame |-> FALSE, top |-> 0]
smoothScrollToTop(Y) ==
    IF Y > 1
    THEN [frame |-> TRUE, top |-> FloorOf85(Y)]
    ELSE [frame |-> FALSE, top |-> 0]

\* #postTopic is clicked (line 253)
ClickTopic ==
    /\ topFrame = "idle"
    /\ LET r == smoothScrollToTop(pageYOffset)
       IN  /\ pageYOffset' = r.top
           /\ topFrame' = IF r.frame THEN "requested" ELSE "done"
    /\ UNCHANGED <<engine, dataScale, modal>>

\* the browser runs the requested animation frame
AnimationFrame ==
    /\ topFrame = "requested"
    /\ LET r == smoothScrollToTop(pageYOffset)
       IN  /\ pageYOffset' = r.top
           /\ topFrame' = IF r.frame THEN "requested" ELSE "done"
    /\ UNCHANGED <<engine, dataScale, modal>>

InitToTop ==
    /\ pageYOffset \in 0..MaxOffset
    /\ EngineAtRest
    /\ WidgetsInit

NextToTop == ClickTopic \/ AnimationFrame

\* A requested animation frame is run by the browser.
SpecToTop == InitToTop /\ [][NextToTop]_vars /\ WF_vars(AnimationFrame)

----------------------------------------------------------------------------
(* The diagram viewer: the zoom of the diagram in the modal, and the modal *)

Min(a, b) == IF a <= b THEN a ELSE b
Max(a, b) == IF a >= b THEN a ELSE b

\* getScale(diagramEl): parseFloat of the attribute, 1 when it is absent or not
\* a positive number
getScale(attr) == IF attr # Null /\ attr > 0 THEN attr ELSE 100

\* setScale(diagramEl, scale): the value stored in data-scale
setScaleUnclamped(scale) == scale
setScale(scale) == Max(ZoomMin, Min(ZoomMax, scale))

zoomIn(attr) == setScale(getScale(attr) + ZoomStep)
zoomOut(attr) == setScale(getScale(attr) - ZoomStep)
zoomReset(attr) == setScale(100)

\* the scale fitTo computes at line 492
FitScale(clientWidth, clientHeight, width, height) ==
    LET cw == Max(1, clientWidth - FitInset)
        ch == Max(1, clientHeight - FitInset)
    IN  Max(FitFloor, Min(ZoomMax, Min((cw * 100) \div Max(width, 1),
                                       (ch * 100) \div Max(height, 1))))

\* fitTo(diagramEl, containerEl): the value of data-scale afterwards
fitTo(attr, svg, clientWidth, clientHeight, width, height) ==
    IF ~svg THEN attr
    ELSE LET prev == getScale(attr)
             scale == FitScale(clientWidth, clientHeight, width, height)
         IN  IF scale <= 0 THEN setScale(prev) ELSE setScale(scale)

\* openModal(triggerBtn, sourceDiagramEl): a fresh diagram at scale 1, a fresh
\* keyHandler stored on the overlay and added to document
OpenModal ==
    /\ opened < MaxOpens
    /\ opened' = opened + 1
    /\ dataScale' = 100
    /\ mermaidKeyHandler' = opened + 1
    /\ keyHandlers' = keyHandlers \cup {opened + 1}
    /\ overlayActive' = TRUE
    /\ UNCHANGED <<pageYOffset, engine, topFrame>>

\* closeModal(), reached through the listeners ensureModal put on the overlay
CloseModal ==
    /\ opened > 0
    /\ overlayActive' = FALSE
    /\ IF mermaidKeyHandler # Null
       THEN /\ keyHandlers' = keyHandlers \ {mermaidKeyHandler}
            /\ mermaidKeyHandler' = Null
       ELSE UNCHANGED <<keyHandlers, mermaidKeyHandler>>
    /\ UNCHANGED <<pageYOffset, engine, topFrame, dataScale, opened>>

\* The zoom buttons of the modal toolbar and the keys + - 0, on the diagram
\* in the modal
ZoomIn ==
    /\ opened > 0
    /\ dataScale' = zoomIn(dataScale)
    /\ UNCHANGED <<pageYOffset, engine, topFrame, modal>>

ZoomOut ==
    /\ opened > 0
    /\ dataScale' = zoomOut(dataScale)
    /\ UNCHANGED <<pageYOffset, engine, topFrame, modal>>

ZoomReset ==
    /\ opened > 0
    /\ dataScale' = zoomReset(dataScale)
    /\ UNCHANGED <<pageYOffset, engine, topFrame, modal>>

\* The fit button, and the timer openModal sets: the diagram may have no svg
\* (mermaid failed to render it).
FitTo ==
    /\ opened > 0
    /\ \E svg \in BOOLEAN, cw, ch \in ClientSizes, w, h \in SvgSizes :
           dataScale' = fitTo(dataScale, svg, cw, ch, w, h)
    /\ UNCHANGED <<pageYOffset, engine, topFrame, modal>>

InitViewer ==
    /\ pageYOffset = 0
    /\ EngineAtRest
    /\ WidgetsInit

NextViewer ==
    \/ OpenModal
    \/ CloseModal
    \/ ZoomIn
    \/ ZoomOut
    \/ ZoomReset
    \/ FitTo

SpecViewer == InitViewer /\ [][NextViewer]_vars

----------------------------------------------------------------------------
(* Properties of the Scroller *)

Last(q) == q[Len(q)]

\* The snapshot the latest timer callback passed to its observers.
Delivered == Last(calls).params

\* showTopic ran in the timer callback that has just run.
TopicBarRan == calls # <<>> /\ Last(calls).func = ShowTopic /\ ~Last(calls).threw

\* C1. Debounce: a raw scroll event that arrives inside the quiet window of an
\* earlier one schedules nothing, so at most one dispatch is pending at any time
\* and only the first event of a window is ever dispatched.
C1_Debounce ==
    /\ Len(timers) <= 1
    /\ \A i \in 1..Len(timers) : timers[i].event.first
    /\ \A i \in 1..Len(calls) : calls[i].params.event.first

\* C2. Every snapshot delivered to the observers carries the offset sampled at
\* the first raw scroll event of its burst.
C2_OffsetOfFirstEvent ==
    \A i \in 1..Len(calls) :
        calls[i].params.beforeOffsetY = calls[i].params.event.windowOffset

\* C3. Exclusivity: at most one state marker is present on the topic bar.
C3_AtMostOneMarker == Cardinality(classList \cap StateMarkers) <= 1

\* C4. Hidden side of the threshold: a showTopic run at an offset <= threshold
\* (the threshold included) leaves the hidden marker and no shown-variant marker,
\* whatever the delta and the markers before.
C4_HiddenAtOrBelowThreshold ==
    [][(Dispatch /\ TopicBarRan'
        /\ pageYOffset <= postTitle.offsetTop + postTitle.height)
       => classList' \cap StateMarkers = {Hidden}]_vars

C4_Witness ==
    /\ TopicBarRan
    /\ pageYOffset = postTitle.offsetTop + postTitle.height
    /\ Delivered.beforeOffsetY # pageYOffset
    /\ classList = {Hidden}

\* C5. Zero-delta show: a showTopic run above the threshold with delta 0 on a bar
\* that does not show the scroll-to-top tip leaves immediately-show as the only
\* state marker.
C5_ZeroDeltaImmediatelyShown ==
    [][(Dispatch /\ TopicBarRan'
        /\ pageYOffset > postTitle.offsetTop + postTitle.height
        /\ Head(timers).beforeOffsetY - pageYOffset = 0
        /\ ShowTips \notin classList)
       => classList' \cap StateMarkers = {ImmediatelyShow}]_vars

\* C6. Flash instead of show: a showTopic run above the threshold with delta 0 on
\* a bar that shows the scroll-to-top tip leaves the flash marker as the only
\* state marker.
C6_ZeroDeltaFlash ==
    [][(Dispatch /\ TopicBarRan'
        /\ pageYOffset > postTitle.offsetTop + postTitle.height
        /\ Head(timers).beforeOffsetY - pageYOffset = 0
        /\ ShowTips \in classList)
       => classList' \cap StateMarkers = {FlashTips}]_vars

C6_Witness ==
    /\ TopicBarRan
    /\ pageYOffset > postTitle.offsetTop + postTitle.height
    /\ Delivered.beforeOffsetY = pageYOffset
    /\ classList = {FlashTips}

\* C7. Upward scroll: a showTopic run above the threshold with delta > 0 leaves
\* the scroll-to-top tip as the only marker when the offset is more than twice
\* the viewport height, and the switching-in title as the only marker otherwise
\* (an offset of exactly twice the viewport height included).
C7_ScrollUp ==
    [][(Dispatch /\ TopicBarRan'
        /\ pageYOffset > postTitle.offsetTop + postTitle.height
        /\ Head(timers).beforeOffsetY - pageYOffset > 0)
       => classList' \cap StateMarkers =
              IF pageYOffset > 2 * innerHeight THEN {ShowTips} ELSE {SwitchPostTitle}]_vars

C7_Witness ==
    /\ TopicBarRan
    /\ pageYOffset > postTitle.offsetTop + postTitle.height
    /\ Delivered.beforeOffsetY > pageYOffset
    /\ pageYOffset = 2 * innerHeight
    /\ classList = {SwitchPostTitle}

\* C8. Downward scroll: a showTopic run above the threshold with delta < 0 leaves
\* is-show-post-title as the only marker, whatever the markers before.
C8_ScrollDown ==
    [][(Dispatch /\ TopicBarRan'
        /\ pageYOffset > postTitle.offsetTop + postTitle.height
        /\ Head(timers).beforeOffsetY - pageYOffset < 0)
       => classList' \cap StateMarkers = {ShowPostTitle}]_vars

C8_Witness ==
    /\ TopicBarRan
    /\ pageYOffset > postTitle.offsetTop + postTitle.height
    /\ Delivered.beforeOffsetY < pageYOffset
    /\ classList = {ShowPostTitle}

\* C9. Within one dispatch every registered observer is invoked exactly once, in
\* registration order, all with the same snapshot.
C9_EveryObserverInOrder ==
    calls # <<>> =>
        /\ Len(calls) = Len(callbacks)
        /\ \A i \in 1..Len(calls) :
              /\ calls[i].func = callbacks[i]
              /\ calls[i].params = calls[1].params

----------------------------------------------------------------------------
(* Properties of the tracker *)

\* The tracker ran to its end in the latest timer callback.
TrackerRan == calls # <<>> /\ calls[1].func = CatalogueHighlight /\ ~calls[1].threw

\* The heading offsets the tracker scans: those of the links that have an href,
\* in the order of the links.
RECURSIVE ScannedTops(_, _)
ScannedTops(dir, hd) ==
    IF dir = <<>> THEN <<>>
    ELSE IF Head(dir).name = 0
         THEN ScannedTops(Tail(dir), hd)
         ELSE <<[name |-> Head(dir).name, top |-> hd[Head(dir).name]]>>
              \o ScannedTops(Tail(dir), hd)

\* The reference scan: headings with offset > scroll + 30 are skipped, the first
\* candidate is chosen, a later one replaces the chosen one iff its
\* offset + 60 >= chosen offset - 60. The result indexes the list; 0: no candidate.
RECURSIVE ReferenceScan(_, _, _, _)
ReferenceScan(tops, k, chosen, scroll) ==
    IF k > Len(tops) THEN chosen
    ELSE IF tops[k].top > scroll + 30
         THEN ReferenceScan(tops, k + 1, chosen, scroll)
         ELSE IF chosen = 0 \/ tops[k].top + 60 >= tops[chosen].top - 60
              THEN ReferenceScan(tops, k + 1, k, scroll)
              ELSE ReferenceScan(tops, k + 1, chosen, scroll)

ActiveHeadings == { directory[i].name : i \in tocActive }

\* C10. After a pass of the tracker that found a candidate, the heading marked
\* active is the one the reference scan chooses; headings at 0, 800, 1600 with the
\* page at 850 give the heading at 800.
C10_ActiveHeadingIsReferenceScan ==
    TrackerRan =>
        LET tops == ScannedTops(directory, headings)
            chosen == ReferenceScan(tops, 1, 0, pageYOffset)
        IN  /\ chosen # 0 => ActiveHeadings = {tops[chosen].name}
            /\ (/\ directory = Generated(3)
                /\ DOMAIN headings = 1..3
                /\ headings[1] = 0 /\ headings[2] = 800 /\ headings[3] = 1600
                /\ pageYOffset = 850)
               => ActiveHeadings = {2}

C10_Witness ==
    /\ TrackerRan
    /\ directory = Generated(3)
    /\ DOMAIN headings = 1..3
    /\ headings[1] = 0 /\ headings[2] = 800 /\ headings[3] = 1600
    /\ pageYOffset = 850
    /\ ActiveHeadings = {2}

\* The link the selector '.toc a[href="#' + encodeURI(id) + '"]' names: the
\* links whose href attribute is the id of heading name written escaped.
LinksTo(name) ==
    { i \in 1..Len(directory) :
        directory[i].name = name /\ directory[i].escaped = (name % 2 = 0) }

\* C11. At most one link of the table of contents carries the active marker, in
\* every state; after a pass that ran to its end and found a candidate the
\* marker is on exactly the link that points at the chosen heading.
C11_OneActiveLink ==
    /\ Cardinality(tocActive) <= 1
    /\ TrackerRan =>
         LET tops == ScannedTops(directory, headings)
             chosen == ReferenceScan(tops, 1, 0, pageYOffset)
         IN  chosen # 0 => tocActive = LinksTo(tops[chosen].name)

C11_Witness ==
    /\ TrackerRan
    /\ Len(directory) = 3
    /\ tocActive = {3}
    /\ \E y \in TocScrollOffsets :
          catalogueHighlightPass(tocActive, tocScrollTop, directory, headings,
                                 tocContainer, y).tocActive = {1}

\* C12. Idempotence: with the headings, the links, the panel and the scroll
\* offset unchanged, a further pass of the tracker leaves the marked link and
\* the panel position as the pass before left them.
C12_PassIdempotent ==
    (calls # <<>> /\ calls[1].func = CatalogueHighlight) =>
        LET again == catalogueHighlightPass(tocActive, tocScrollTop, directory,
                                            headings, tocContainer, pageYOffset)
        IN  /\ again.tocActive = tocActive
            /\ again.tocScrollTop = tocScrollTop
            /\ again.threw = calls[1].threw

C12_Witness ==
    /\ TrackerRan
    /\ Len(directory) = 3
    /\ DOMAIN headings = 1..3
    /\ headings[1] = 800 /\ headings[2] = 700 /\ headings[3] = 1600
    /\ pageYOffset = 770
    /\ tocActive = {2}
    /\ tocScrollTop > 0

\* The link the latest pass marked, when it ran to its end and found a candidate.
ActiveLink == CHOOSE i \in tocActive : TRUE
PassChoseLink ==
    /\ TrackerRan
    /\ ReferenceScan(ScannedTops(directory, headings), 1, 0, pageYOffset) # 0

\* The farthest the panel can scroll.
PanelRange ==
    IF tocContainer.scrollHeight > tocContainer.height
    THEN tocContainer.scrollHeight - tocContainer.height ELSE 0

\* C13 as stated. After a pass that chose an active link the panel is scrolled to
\* linkOffset + 100 - panelHeight if the link's offset exceeds
\* panelHeight - spacing, and to 0 otherwise (a link at exactly
\* panelHeight - spacing resets the panel to 0).
C13_PanelScrollAsStated ==
    PassChoseLink =>
        LET linkOffset == LinkTop(ActiveLink)
        IN  tocScrollTop = IF linkOffset > tocContainer.height - 60
                           THEN linkOffset + 100 - tocContainer.height
                           ELSE 0

\* C13 amended. After a pass that chose an active link the panel is at
\* linkOffset + 100 - panelHeight, or as far as it can scroll if that is less,
\* when the link's offset is at least panelHeight - spacing (the offset
\* panelHeight - spacing included), and at 0 otherwise.
C13_PanelScroll ==
    PassChoseLink =>
        LET linkOffset == LinkTop(ActiveLink)
            target == linkOffset + 100 - tocContainer.height
        IN  tocScrollTop = IF linkOffset >= tocContainer.height - 60
                           THEN IF target > PanelRange THEN PanelRange ELSE target
                           ELSE 0

C13_Witness ==
    /\ PassChoseLink
    /\ LinkTop(ActiveLink) = tocContainer.height - 60
    /\ tocScrollTop = 40

\* The headings the links of the table of contents resolve to.
ResolvedHeadings ==
    { directory[i].name : i \in 1..Len(directory) } \cap DOMAIN headings

\* C14. No-candidate frame condition: a pass in which every heading lies more
\* than spacing/2 below the scroll offset changes neither the marked links nor
\* the panel position.
C14_NoCandidateNoChange ==
    [][(NextToc /\ \A h \in ResolvedHeadings : headings[h] > pageYOffset' + 30)
       => (tocActive' = tocActive /\ tocScrollTop' = tocScrollTop)]_vars

C14_Witness ==
    /\ TrackerRan
    /\ ResolvedHeadings # {}
    /\ \A h \in ResolvedHeadings : headings[h] > pageYOffset + 30
    /\ tocActive # {}
    /\ tocScrollTop > 0

----------------------------------------------------------------------------
(* Properties of the page as a whole *)

\* C15. Inert tracker: on a page without links in its table of contents only
\* showTopic is registered, every timer callback runs showTopic, and no marker
\* of the table of contents and no panel position ever changes.
C15_InertWithoutLinks ==
    directory = <<>> =>
        /\ callbacks = <<ShowTopic>>
        /\ calls # <<>> => (Len(calls) = 1 /\ TopicBarRan /\ classList # {})
        /\ tocActive = {}
        /\ tocScrollTop = 0

C15_Witness ==
    /\ directory = <<>>
    /\ TopicBarRan
    /\ classList = {ShowPostTitle}

\* The threshold as the title was laid out at startup
StartupThreshold == StartupTitle.offsetTop + StartupTitle.height

\* C19 as stated. Every showTopic run compares the offset with the threshold
\* measured at startup, also after the title was laid out again.
C19_StaticThreshold ==
    [][(Dispatch /\ TopicBarRan')
       => (classList' \cap StateMarkers = {Hidden} <=> pageYOffset <= StartupThreshold)]_vars

\* C19 amended. Every showTopic run compares the offset with the threshold of the
\* title as it is laid out when the run happens: the bar is hidden iff the offset
\* is at or below the title's current position plus its current height.
C19_ThresholdOfCurrentLayout ==
    [][(Dispatch /\ TopicBarRan')
       => (Hidden \in classList' <=> ~(pageYOffset > postTitle.offsetTop + postTitle.height))]_vars

\* The title shrank after startup and the run at the startup threshold showed
\* the bar.
C19_Witness ==
    /\ TopicBarRan
    /\ timers = <<>>
    /\ postTitle # StartupTitle
    /\ pageYOffset = StartupThreshold
    /\ Hidden \notin classList
    /\ classList # {}

\* C16. A timer set by a scroll event is never cancelled and fires once: the
\* queue of timers loses a timer only when the callback of its oldest, due timer
\* runs; the timers fire also when no further scroll event comes; and every
\* scroll event, also one after a callback has run, sets a new timer.
C16_DispatchLiveness ==
    /\ [][/\ Len(timers') < Len(timers)
             => (/\ Head(timers).remaining = 0
                 /\ timers' = Tail(timers)
                 /\ calls' # <<>>
                 /\ calls'[1].params.beforeOffsetY = Head(timers).beforeOffsetY)
          /\ pageYOffset' # pageYOffset
             => (/\ Len(timers') = Len(timers) + 1
                 /\ Last(timers').remaining = QuietInterval
                 /\ Last(timers').beforeOffsetY = pageYOffset')]_vars
    /\ []<><<Dispatch>>_vars \/ <>[](timers = <<>>)

\* A callback has run and a later scroll event has set a new timer.
C16_Witness ==
    /\ calls # <<>>
    /\ Len(timers) = 1
    /\ timers[1].remaining = QuietInterval
    /\ timers[1].beforeOffsetY # calls[1].params.beforeOffsetY

\* C18. A failure inside one observer is local: in a timer callback where an
\* observer faulted, the observers registered after it, showTopic being the last,
\* still ran with the same snapshot.
C18_ObserverIsolation ==
    (calls # <<>> /\ \E i \in 1..Len(calls) : calls[i].threw) =>
        /\ Last(calls).func = ShowTopic
        /\ ~Last(calls).threw
        /\ Last(calls).params = calls[1].params

\* C22. After every showTopic run the hidden marker is present iff no
\* shown-variant marker is; a run at an offset above the threshold leaves at
\* least one shown-variant marker and no hidden marker, whatever the delta.
C22_HiddenShownSeparation ==
    [][(Dispatch /\ TopicBarRan')
       => /\ Hidden \in classList' <=> classList' \cap ShownMarkers = {}
          /\ pageYOffset > postTitle.offsetTop + postTitle.height
             => (classList' \cap ShownMarkers # {} /\ Hidden \notin classList')]_vars

\* The last timer callback ran showTopic above the threshold after a scroll up
\* far down the page: the tip is the shown variant and the bar is not hidden.
C22_Witness ==
    /\ TopicBarRan
    /\ Delivered.beforeOffsetY > pageYOffset
    /\ pageYOffset > innerHeight * 2
    /\ classList \cap ShownMarkers = {ShowTips}
    /\ Hidden \notin classList

Reverse(q) == [i \in 1..Len(q) |-> q[Len(q) + 1 - i]]

\* C21. The two observers write disjoint parts of the document: showTopic leaves
\* the markers of the links and the position of the panel as the tracker made
\* them, the tracker leaves the markers of the topic bar alone, and what a timer
\* callback leaves on the topic bar and on the table of contents is the same
\* with the observers run in the opposite order.
C21_DisjointEffects ==
    [][Dispatch =>
        LET params == [event |-> Head(timers).event,
                       beforeOffsetY |-> Head(timers).beforeOffsetY]
            before == [classList |-> classList, tocActive |-> tocActive,
                       tocScrollTop |-> tocScrollTop]
            swapped == ForEach(Reverse(callbacks), 1, params, before, <<>>).dom
            tracker == catalogueHighlightPass(tocActive, tocScrollTop, directory,
                                              headings, tocContainer, pageYOffset)
        IN  /\ HasCatalogue(directory)
               => (tocActive' = tracker.tocActive /\ tocScrollTop' = tracker.tocScrollTop)
            /\ classList' = swapped.classList
            /\ tocActive' = swapped.tocActive
            /\ tocScrollTop' = swapped.tocScrollTop]_vars

----------------------------------------------------------------------------
(* Properties of the tracker, continued *)

\* C20. Look-ahead exclusion: after any pass that marks a heading active, the
\* offset of that heading is at most the scroll offset plus 30; a heading
\* further down the page is never made active, in whatever order the offsets
\* of the headings come.
C20_LookAheadExclusion ==
    [][(NextToc /\ (tocActive' # tocActive \/ PassChoseLink'))
       => \A i \in tocActive' :
             /\ directory[i].name \in DOMAIN headings
             /\ headings[directory[i].name] <= pageYOffset' + 30]_vars

C20_Witness ==
    /\ TrackerRan
    /\ Len(directory) = 3
    /\ DOMAIN headings = 1..3
    /\ headings[1] = 1600
    /\ headings[2] = 700
    /\ headings[3] = 800
    /\ pageYOffset = 770
    /\ tocActive = {2}

\* The heading offsets left when the links whose heading is not in the
\* document are taken out of the scan.
RECURSIVE ResolvableTops(_, _)
ResolvableTops(dir, hd) ==
    IF dir = <<>> THEN <<>>
    ELSE IF Head(dir).name = 0 \/ Head(dir).name \notin DOMAIN hd
         THEN ResolvableTops(Tail(dir), hd)
         ELSE <<[name |-> Head(dir).name, top |-> hd[Head(dir).name]]>>
              \o ResolvableTops(Tail(dir), hd)

\* C17. A link whose heading cannot be found in the document is left out of the
\* scan: the pass completes without a fault and marks the heading the reference
\* scan chooses among the headings that can be found.
C17_UnresolvableSkipped ==
    (calls # <<>> /\ calls[1].func = CatalogueHighlight) =>
        /\ ~calls[1].threw
        /\ LET tops == ResolvableTops(directory, headings)
               chosen == ReferenceScan(tops, 1, 0, pageYOffset)
           IN  chosen # 0 => tocActive = LinksTo(tops[chosen].name)

\* The scanned links whose heading is at or above the look-ahead line
Candidates(tops, scroll) == { k \in 1..Len(tops) : tops[k].top <= scroll + 30 }

\* C24. When the offsets of the headings do not decrease in document order the
\* hysteresis test always passes: the heading marked active is the last
\* candidate in document order, which has the greatest offset at or below
\* scroll + 30, however far apart the headings are.
C24_OrderedHeadingsLastCandidate ==
    TrackerRan =>
        LET tops == ScannedTops(directory, headings)
            cands == Candidates(tops, pageYOffset)
            last == CHOOSE k \in cands : \A j \in cands : j <= k
        IN  ((\A j, k \in 1..Len(tops) : j <= k => tops[j].top <= tops[k].top)
             /\ cands # {})
            => /\ ActiveHeadings = {tops[last].name}
               /\ \A j \in cands : tops[j].top <= tops[last].top

\* Headings at 0, 800 and 1600, further apart than the band, the page at 1600.
C24_Witness ==
    /\ TrackerRan
    /\ Len(directory) = 3
    /\ DOMAIN headings = 1..3
    /\ headings[1] = 0 /\ headings[2] = 800 /\ headings[3] = 1600
    /\ pageYOffset = 1600
    /\ ActiveHeadings = {3}

----------------------------------------------------------------------------
(* Properties of the widgets *)

\* C25. smoothScrollToTop terminates: started at any offset, every run of it at
\* an offset Y > 1 moves the page to floor(Y * 0.85), strictly less than Y, and
\* requests a frame; a run at Y <= 1 moves the page to 0 and requests none; so
\* after finitely many frames the offset is 0 and no frame is pending.
C25_ScrollToTopTerminates ==
    /\ [][NextToTop =>
            IF pageYOffset > 1
            THEN /\ pageYOffset' < pageYOffset
                 /\ pageYOffset' * 100 <= pageYOffset * 85
                 /\ pageYOffset * 85 < (pageYOffset' + 1) * 100
                 /\ topFrame' = "requested"
            ELSE pageYOffset' = 0 /\ topFrame' = "done"]_vars
    /\ (topFrame # "idle") ~> (topFrame = "done" /\ pageYOffset = 0)
    /\ [](topFrame = "done" => [](topFrame = "done" /\ pageYOffset = 0))

\* The animation has come down to offset 1 and its last frame is pending.
C25_Witness ==
    /\ topFrame = "requested"
    /\ pageYOffset = 1

\* C26. The stored scale of a diagram lies in [0.5, 4.0] after any sequence of
\* zoomIn, zoomOut, zoomReset and fitTo; zoomIn at 4.0 and zoomOut at 0.5 leave
\* it unchanged, zoomReset gives 1, and fitTo stores no scale below 0.5, also
\* when the scale it computed is below 0.5.
C26_ZoomBounds ==
    /\ [](dataScale # Null => (50 <= dataScale /\ dataScale <= 400))
    /\ [][(ZoomIn /\ dataScale = 400) => dataScale' = 400]_vars
    /\ [][(ZoomOut /\ dataScale = 50) => dataScale' = 50]_vars
    /\ [][ZoomReset => dataScale' = 100]_vars
    /\ [][FitTo => dataScale' >= 50]_vars

\* The diagram in the open modal has been zoomed to 4.0: zoomIn leaves it there,
\* and fitTo into a small modal body, which computes 0.1, would store 0.5.
C26_Witness ==
    /\ overlayActive
    /\ dataScale = 400
    /\ zoomIn(dataScale) = dataScale
    /\ FitScale(34, 34, 1000, 1000) = 10
    /\ fitTo(dataScale, TRUE, 34, 34, 1000, 1000) = 50

\* C27. Whenever the modal overlay is not active, none of the keydown listeners
\* openModal added remains on the document, also when openModal ran again
\* before closeModal.
C27_KeyHandlersRemoved == ~overlayActive => keyHandlers = {}

====
